---- MODULE Spec2Model ----
(***************************************************************************)
(* A model of jester.py: the command line assistant that sends a prompt    *)
(* to a chat-completion endpoint, logs prompt/response pairs to            *)
(* history.json, optionally saves the response into an Obsidian vault, and *)
(* converts a PDF to markdown by parallel OCR followed by one AI call.     *)
(*                                                                         *)
(* Strings are sequences of tokens, a token being a record [k, n]: k is    *)
(* the text of the token and n a number printed after it (0 when there is  *)
(* none).  Files are records; the local file system and the vault persist  *)
(* from one invocation of the program to the next.                         *)
(***************************************************************************)
EXTENDS Naturals, Sequences, FiniteSets

\* ------------------------------------------------------------------ bounds
\* Number of invocations of the program in one behaviour.
MaxRuns == 2
\* Largest number of pages the rasterizer returns.
MaxPages == 3

\* ------------------------------------------------------------------- state
VARIABLES
    apiKey,         \* OPENROUTER_API_KEY is set
    vaultPath,      \* OBSIDIAN_VAULT_PATH, None when unset
    historyFile,    \* history.json
    vault,          \* the files of the vault directory, by name
    runs,           \* the invocation that is running; also the clock
    pc,             \* where the running invocation is
    exc,            \* the exception that ended it, None when there is none
    args,           \* the parsed command line
    prompt,         \* the prompt built
    reply,          \* what requests.post produced for the call
    response,       \* what ask_ai returned
    events,         \* what the invocation printed and did, in order
    futures,        \* the OCR futures of the pages, by 0-based page index
    finished,       \* the page indices in the order their OCR ended
    page_texts,     \* the list the executor's map returned
    filename,       \* the base name of the file written
    history0,       \* history.json when the invocation started
    vault0,         \* the vault when the invocation started
    completed,      \* invocations that completed a prompt action
    cpc, chistory, centry, cwrote  \* the concurrent invocations (below)

\* ----------------------------------------------------------------- strings
None == "None"

Tok(s) == [k |-> s, n |-> 0]
NL == Tok("\n")
Whitespace == {NL, Tok(" ")}

RECURSIVE lstrip(_)
lstrip(s) ==
    IF s # <<>> /\ Head(s) \in Whitespace THEN lstrip(Tail(s)) ELSE s

RECURSIVE rstrip(_)
rstrip(s) ==
    IF s # <<>> /\ s[Len(s)] \in Whitespace
    THEN rstrip(SubSeq(s, 1, Len(s) - 1))
    ELSE s

\* str.strip()
strip(s) == rstrip(lstrip(s))

\* A Python value: a str, or None.
Str(s) == [type |-> "str", val |-> s]
NoneValue == [type |-> "NoneType", val |-> <<>>]

\* The marker every error string of ask_ai begins with.
ErrorMarker == Tok("Error contacting model: ")

\* "".join(list)
RECURSIVE join(_)
join(texts) ==
    IF texts = <<>> THEN <<>> ELSE Head(texts) \o join(Tail(texts))

\* ------------------------------------------------------------------- files
Absent == [exists |-> FALSE, data |-> <<>>]
File(d) == [exists |-> TRUE, data |-> d]

\* history.json: absent, a JSON array of entries, or bytes that are no JSON
\* document (a zero-byte file, as open(..., "w") leaves it before the dump).
NoHistory == [state |-> "absent", entries |-> <<>>]
JsonHistory(es) == [state |-> "json", entries |-> es]
CorruptHistory == [state |-> "corrupt", entries |-> <<>>]

\* The entries the log holds.
Log(f) == f.entries

VaultName(base, ts) == [base |-> base, ts |-> ts]
VaultNames ==
    {VaultName("note", 0), VaultName("doc_AI_formatted", 0)}
        \cup {VaultName("jester_", c) : c \in 1..MaxRuns}

\* ------------------------------------------------------------ command line
TemplateFlags ==
    {"summarize", "question", "quotes", "generate", "wordfor", "dnd", "code"}

NoArgs ==
    [neofetch |-> FALSE, helpme |-> FALSE, convertnote |-> None,
     summarize |-> None, question |-> None, quotes |-> None,
     generate |-> None, wordfor |-> None, dnd |-> None, code |-> None,
     obsidian |-> None]

\* The command lines the model runs: no flag, each primary flag alone, two
\* pairs of primary flags, each with and without -o (bare, or with a name).
PrimaryArgs ==
    {NoArgs,
     [NoArgs EXCEPT !.neofetch = TRUE],
     [NoArgs EXCEPT !.helpme = TRUE],
     [NoArgs EXCEPT !.convertnote = "doc.pdf"],
     [NoArgs EXCEPT !.helpme = TRUE, !.convertnote = "doc.pdf"],
     [NoArgs EXCEPT !.convertnote = "doc.pdf", !.question = "text"],
     [NoArgs EXCEPT !.summarize = "text", !.code = "text"]}
        \cup {[NoArgs EXCEPT ![t] = "text"] : t \in TemplateFlags}

ObsidianArgs == {None, "last_output", "note"}

ArgSpace == {[a EXCEPT !.obsidian = o] : a \in PrimaryArgs, o \in ObsidianArgs}

\* The prompt of lines 203-216, None when no template flag is set.
Prompt(template, text) == [template |-> template, text |-> text]
NoPrompt == Prompt(None, <<>>)

\* A variant of PromptFor: -o alone asks for the last output again.
PromptFor_obsidian(a) ==
    IF a.summarize # None THEN Prompt("summarize", <<Tok(a.summarize)>>)
    ELSE IF a.question # None THEN Prompt("question", <<Tok(a.question)>>)
    ELSE IF a.quotes # None THEN Prompt("quotes", <<Tok(a.quotes)>>)
    ELSE IF a.generate # None THEN Prompt("generate", <<Tok(a.generate)>>)
    ELSE IF a.wordfor # None THEN Prompt("wordfor", <<Tok(a.wordfor)>>)
    ELSE IF a.dnd # None THEN Prompt("dnd", <<Tok(a.dnd)>>)
    ELSE IF a.code # None THEN Prompt("code", <<Tok(a.code)>>)
    ELSE IF a.obsidian # None THEN Prompt("generate", <<Tok(a.obsidian)>>)
    ELSE NoPrompt

PromptFor(a) ==
    IF a.summarize # None THEN Prompt("summarize", <<Tok(a.summarize)>>)
    ELSE IF a.question # None THEN Prompt("question", <<Tok(a.question)>>)
    ELSE IF a.quotes # None THEN Prompt("quotes", <<Tok(a.quotes)>>)
    ELSE IF a.generate # None THEN Prompt("generate", <<Tok(a.generate)>>)
    ELSE IF a.wordfor # None THEN Prompt("wordfor", <<Tok(a.wordfor)>>)
    ELSE IF a.dnd # None THEN Prompt("dnd", <<Tok(a.dnd)>>)
    ELSE IF a.code # None THEN Prompt("code", <<Tok(a.code)>>)
    ELSE NoPrompt

\* ------------------------------------------------------------------ ask_ai
\* What the remote call can produce: the transport fails, or a response with
\* a status and a body arrives.  A body is a JSON document or not; the path
\* ["choices"][0]["message"]["content"] exists in it up to some depth.
Body(json, depth, content) == [json |-> json, depth |-> depth, content |-> content]
Answer == <<Tok("answer"), NL>>

NoReply == [transport |-> "none", status |-> 0, body |-> Body(FALSE, 0, NoneValue)]

ApiOutcomes ==
    {[transport |-> "failed", status |-> 0, body |-> Body(FALSE, 0, NoneValue)],
     [transport |-> "ok", status |-> 500, body |-> Body(TRUE, 0, NoneValue)],
     [transport |-> "ok", status |-> 200, body |-> Body(FALSE, 0, NoneValue)]}
        \cup {[transport |-> "ok", status |-> 200, body |-> Body(TRUE, d, NoneValue)]
                : d \in 0..3}
        \cup {[transport |-> "ok", status |-> 200, body |-> Body(TRUE, 4, c)]
                : c \in {NoneValue, Str(Answer)}}

\* f"Error contacting model: {e}": the marker, then the text of the
\* exception, one token whatever the exception e.
ErrorString(e) == Str(<<ErrorMarker, Tok("{e}")>>)

\* response.raise_for_status()
raise_for_status(o) == o.status < 200 \/ o.status >= 300

\* Depth of the path the body holds: 0 no "choices", 1 an empty list, 2 no
\* "message", 3 no "content", 4 the whole path.
ask_ai(o) ==
    IF o.transport # "ok" THEN ErrorString("ConnectionError")
    ELSE IF raise_for_status(o) THEN ErrorString("HTTPError")
    ELSE IF ~o.body.json THEN ErrorString("JSONDecodeError")
    ELSE IF o.body.depth = 0 THEN ErrorString("KeyError")
    ELSE IF o.body.depth = 1 THEN ErrorString("IndexError")
    ELSE IF o.body.depth < 4 THEN ErrorString("KeyError")
    ELSE o.body.content

\* The outcomes in which the call did not produce a completion text.
CallFailed(o) ==
    \/ o.transport # "ok"
    \/ raise_for_status(o)
    \/ ~o.body.json
    \/ o.body.depth < 4
    \/ o.body.content.type # "str"

\* ----------------------------------------------------------------- history
\* load_history: the entries, or "raise" when json.load fails.
load_history(f) ==
    IF f.state = "absent" THEN [raised |-> FALSE, history |-> <<>>]
    ELSE IF f.state = "json" THEN [raised |-> FALSE, history |-> f.entries]
    ELSE [raised |-> TRUE, history |-> <<>>]

\* A variant of Entry: the response is logged as printed, stripped.
Entry_stripped(ts, p, r) ==
    [timestamp |-> ts, prompt |-> p, response |-> strip(r)]

\* The dict of lines 225-229.
Entry(ts, p, r) == [timestamp |-> ts, prompt |-> p, response |-> r]

\* A variant of append: history + [entry], its value dropped.
append_dropped(history, entry) == history

\* history.append(entry)
append(history, entry) == Append(history, entry)

\* A variant of save_history: the file is rewritten with the new entry alone.
save_history_overwrite(f, entry) == JsonHistory(<<entry>>)

\* save_history run without interruption: the file it leaves.
save_history(f, entry) ==
    JsonHistory(append(load_history(f).history, entry))

\* ------------------------------------------------------------------- vault
\* save_to_obsidian, with a vault path that is a string.
save_to_obsidian(v, name, content) ==
    [v EXCEPT ![name] = File(content)]

\* ---------------------------------------------------------------- the OCR
\* process_page_for_ocr((i, image)): the section of page i (0-based).
process_page_for_ocr(i, text) ==
    <<NL, NL, Tok("---"), NL, NL, [k |-> "## Page ", n |-> i + 1], NL>> \o text

OcrTexts == {<<Tok("hello")>>}

Pending == [state |-> "pending", result |-> <<>>]
Done(r) == [state |-> "done", result |-> r]
Failed == [state |-> "failed", result |-> <<>>]

\* A variant of Resolved: a page whose worker raised is passed over.
RECURSIVE Resolved_skip(_, _, _)
Resolved_skip(f, n, i) ==
    IF i < n /\ f[i].state \in {"done", "failed"}
    THEN Resolved_skip(f, n, i + 1)
    ELSE i

\* Number of leading futures of f (pages 0..n-1) that hold a result.
RECURSIVE Resolved(_, _, _)
Resolved(f, n, i) ==
    IF i < n /\ f[i].state = "done" THEN Resolved(f, n, i + 1) ELSE i

\* A variant of map_results: the results in the order the workers ended
\* (concurrent.futures.as_completed).
map_results_as_completed(f, n) == [k \in 1..n |-> f[finished[k]].result]

\* list(executor.map(...)): the results by page index.
map_results(f, n) == [k \in 1..n |-> f[k - 1].result]

\* Number of page images the rasterizer returned.
NumPages(f) == Cardinality(DOMAIN f)

\* The OCR prompt of lines 125-133.
OcrPrompt(extracted) == Prompt("ocr_cleanup", strip(extracted))

\* os.path.splitext(os.path.basename(pdf_path))[0] + "_AI_formatted"
suggested_filename_base(pdf_path) ==
    IF pdf_path = "doc.pdf" THEN "doc_AI_formatted" ELSE "_AI_formatted"

\* What the user types at the filename prompt; "eof" is a closed stdin.
UserInputs == {"eof", "", "  ", "note"}

\* input(...).strip() on the strings of UserInputs
strip_name(s) == IF s = "  " THEN "" ELSE s

\* ------------------------------------------------------------ state tuples
seqvars ==
    <<apiKey, vaultPath, historyFile, vault, runs, pc, exc, args, prompt,
      reply, response, events, futures, finished, page_texts, filename, history0,
      vault0, completed>>
convars == <<cpc, chistory, centry, cwrote>>
vars == <<seqvars, convars>>

Procs == {1, 2}

ConIdle ==
    /\ cpc = [p \in Procs |-> "idle"]
    /\ chistory = [p \in Procs |-> <<>>]
    /\ centry = [p \in Procs |-> Entry(0, NoPrompt, <<>>)]
    /\ cwrote = <<>>

\* An invocation at its start: nothing parsed, asked, printed or written.
Fresh ==
    /\ exc = None
    /\ args = NoArgs
    /\ prompt = NoPrompt
    /\ reply = NoReply
    /\ response = NoneValue
    /\ events = <<>>
    /\ futures = <<>>
    /\ finished = <<>>
    /\ page_texts = <<>>
    /\ filename = None
    /\ history0 = historyFile
    /\ vault0 = vault
    /\ completed = 0

\* What earlier use left behind: an entry of the log, a note of the vault.
OldEntry == Entry(0, Prompt("question", <<Tok("text")>>), Answer)
OldNote == File(<<Tok("old note"), NL>>)

\* One invocation, started with the environment and the files in any of the
\* states earlier invocations and the user's own notes can have left.
Init ==
    /\ apiKey \in BOOLEAN
    /\ vaultPath \in {None, "vault"}
    /\ historyFile \in {NoHistory, JsonHistory(<<>>), CorruptHistory,
                        JsonHistory(<<OldEntry>>)}
    /\ vault \in {[f \in VaultNames |-> Absent],
                  [f \in VaultNames |-> IF f.ts = 0 THEN OldNote ELSE Absent]}
    /\ runs = 1
    /\ pc = "boot"
    /\ Fresh
    /\ ConIdle

Emit(es) == events' = events \o es

\* An uncaught exception ends the invocation.
Raise(e) == pc' = "crashed" /\ exc' = e

\* Lines 17-22: the module refuses to load without an API key.
LoadModule ==
    /\ pc = "boot"
    /\ IF apiKey THEN pc' = "main" /\ exc' = exc ELSE Raise("ValueError")
    /\ UNCHANGED <<apiKey, vaultPath, historyFile, vault, runs, args, prompt,
                   reply, response, events, futures, finished, page_texts,
                   filename, history0, vault0, completed, convars>>

\* main, lines 172-221: parse the command line and pick the action.
Main(a) ==
    /\ pc = "main"
    /\ args' = a
    /\ IF a.neofetch THEN
            /\ Emit(<<"print intro">>)
            /\ pc' = "done" /\ prompt' = prompt
       ELSE IF a.helpme THEN
            /\ Emit(<<"print help">>)
            /\ pc' = "done" /\ prompt' = prompt
       ELSE IF a.convertnote # None THEN
            IF vaultPath = None THEN
                /\ Emit(<<"print vault path not set">>)
                /\ pc' = "done" /\ prompt' = prompt
            ELSE
                /\ Emit(<<"print converting">>)
                /\ pc' = "rasterize" /\ prompt' = prompt
       ELSE IF PromptFor(a) = NoPrompt THEN
            /\ Emit(<<"print no valid command">>)
            /\ pc' = "done" /\ prompt' = prompt
       ELSE
            /\ Emit(<<"print thinking">>)
            /\ pc' = "ask" /\ prompt' = PromptFor(a)
    /\ UNCHANGED <<apiKey, vaultPath, historyFile, vault, runs, exc, reply,
                   response, futures, finished, page_texts, filename,
                   history0, vault0, completed, convars>>

\* Lines 222-223: the call, then print(" Response:\n" + response.strip()).
MainAsk(o) ==
    /\ pc = "ask"
    /\ reply' = o
    /\ response' = ask_ai(o)
    /\ IF response'.type = "str"
       THEN /\ Emit(<<"ask_ai", "print response">>)
            /\ pc' = "save_history" /\ exc' = exc
       ELSE /\ Emit(<<"ask_ai">>)
            /\ Raise("AttributeError")
    /\ UNCHANGED <<apiKey, vaultPath, historyFile, vault, runs, args, prompt,
                   futures, finished, page_texts, filename, history0, vault0, completed,
                   convars>>

\* Lines 225-229, and line 231 when -o is not given.
MainSaveHistory ==
    /\ pc = "save_history"
    /\ IF load_history(historyFile).raised
       THEN /\ Raise("JSONDecodeError")
            /\ UNCHANGED <<historyFile, events, completed>>
       ELSE /\ historyFile' =
                  save_history(historyFile, Entry(runs, prompt, response.val))
            /\ Emit(<<"save_history">>)
            /\ IF args.obsidian # None
               THEN pc' = "obsidian" /\ completed' = completed
               ELSE pc' = "done" /\ completed' = completed + 1
            /\ exc' = exc
    /\ UNCHANGED <<apiKey, vaultPath, vault, runs, args, prompt, reply,
                   response, futures, finished, page_texts, filename,
                   history0, vault0, convars>>

\* Lines 231-234: os.path.join(None, ...) raises TypeError.
MainObsidian ==
    /\ pc = "obsidian"
    /\ filename' = IF args.obsidian # "last_output" THEN args.obsidian
                   ELSE "jester_"
    /\ IF vaultPath = None
       THEN /\ Raise("TypeError")
            /\ UNCHANGED <<vault, events, completed>>
       ELSE /\ vault' = save_to_obsidian(vault,
                  VaultName(filename',
                            IF args.obsidian = "last_output" THEN runs ELSE 0),
                  response.val)
            /\ Emit(<<"save_to_obsidian", "print saved to obsidian">>)
            /\ pc' = "done" /\ exc' = exc
            /\ completed' = completed + 1
    /\ UNCHANGED <<apiKey, vaultPath, historyFile, runs, args, prompt, reply,
                   response, futures, finished, page_texts, history0, vault0,
                   convars>>

\* ---------------------------------------------- convert_pdf_to_ai_markdown
\* A variant of Caught: the handler prints the message and exits the program.
Caught_exits == Emit(<<"print error processing pdf">>) /\ pc' = "crashed"

\* The except clause of line 153: the message, and the function returns.
Caught == Emit(<<"print error processing pdf">>) /\ pc' = "done"

\* Line 112: convert_from_path returns n page images.
Rasterize(n) ==
    /\ pc = "rasterize"
    /\ futures' = [i \in 0..(n - 1) |-> Pending]
    /\ Emit(<<"print extracting">>)
    /\ pc' = "ocr"
    /\ UNCHANGED <<apiKey, vaultPath, historyFile, vault, runs, exc, args,
                   prompt, reply, response, finished, page_texts, filename,
                   history0, vault0, completed, convars>>

\* Line 112: convert_from_path raises (no such file, not a PDF).
RasterizeFails ==
    /\ pc = "rasterize"
    /\ Caught
    /\ UNCHANGED <<apiKey, vaultPath, historyFile, vault, runs, exc, args,
                   prompt, reply, response, futures, finished, page_texts,
                   filename, history0, vault0, completed, convars>>

\* A worker process ends process_page_for_ocr for page i with a section.
OcrDone(i, text) ==
    /\ pc = "ocr"
    /\ i \in DOMAIN futures
    /\ futures[i].state = "pending"
    /\ futures' = [futures EXCEPT ![i] = Done(process_page_for_ocr(i, text))]
    /\ finished' = Append(finished, i)
    /\ UNCHANGED <<apiKey, vaultPath, historyFile, vault, runs, pc, exc, args,
                   prompt, reply, response, events, page_texts, filename,
                   history0, vault0, completed, convars>>

\* A worker process raises in process_page_for_ocr for page i.
OcrFails(i) ==
    /\ pc = "ocr"
    /\ i \in DOMAIN futures
    /\ futures[i].state = "pending"
    /\ futures' = [futures EXCEPT ![i] = Failed]
    /\ finished' = Append(finished, i)
    /\ UNCHANGED <<apiKey, vaultPath, historyFile, vault, runs, pc, exc, args,
                   prompt, reply, response, events, page_texts, filename,
                   history0, vault0, completed, convars>>

\* Lines 120-133: list() takes the results in page order; it returns when
\* every page has one and raises at the first page whose worker raised.
Collect ==
    /\ pc = "ocr"
    /\ LET n == NumPages(futures)
           k == Resolved(futures, n, 0)
       IN  \/ /\ k = n
              /\ page_texts' = map_results(futures, n)
              /\ prompt' = OcrPrompt(join(page_texts'))
              /\ pc' = "cv_ask"
              /\ UNCHANGED events
           \/ /\ k < n
              /\ futures[k].state = "failed"
              /\ Caught
              /\ UNCHANGED <<page_texts, prompt>>
    /\ UNCHANGED <<apiKey, vaultPath, historyFile, vault, runs, exc, args,
                   reply, response, futures, finished, filename, history0,
                   vault0, completed, convars>>

\* A variant of CvAsk: an error string of ask_ai aborts the conversion.
CvAsk_checked(o) ==
    /\ pc = "cv_ask"
    /\ reply' = o
    /\ response' = ask_ai(o)
    /\ IF response'.type = "str" /\ response'.val # <<>>
          /\ Head(response'.val) = ErrorMarker
       THEN Emit(<<"ask_ai", "print error processing pdf">>) /\ pc' = "done"
       ELSE Emit(<<"ask_ai">>) /\ pc' = "cv_input"
    /\ UNCHANGED <<apiKey, vaultPath, historyFile, vault, runs, exc, args,
                   prompt, futures, finished, page_texts, filename, history0,
                   vault0, completed, convars>>

\* Line 135.
CvAsk(o) ==
    /\ pc = "cv_ask"
    /\ reply' = o
    /\ response' = ask_ai(o)
    /\ Emit(<<"ask_ai">>)
    /\ pc' = "cv_input"
    /\ UNCHANGED <<apiKey, vaultPath, historyFile, vault, runs, exc, args,
                   prompt, futures, finished, page_texts, filename, history0,
                   vault0, completed, convars>>

\* Lines 138-148: the filename prompt; input() raises EOFError on a closed
\* stdin.
CvInput(u) ==
    /\ pc = "cv_input"
    /\ IF u = "eof"
       THEN /\ Emit(<<"input filename", "print error processing pdf">>)
            /\ pc' = "done"
            /\ UNCHANGED filename
       ELSE /\ Emit(<<"input filename">>)
            /\ filename' =
                  IF strip_name(u) = ""
                  THEN suggested_filename_base(args.convertnote)
                  ELSE strip_name(u)
            /\ pc' = "cv_open"
    /\ UNCHANGED <<apiKey, vaultPath, historyFile, vault, runs, exc, args,
                   prompt, reply, response, futures, finished, page_texts,
                   history0, vault0, completed, convars>>

\* The file convert_pdf_to_ai_markdown writes.
OutputPath == VaultName(filename, 0)

\* Line 149: open(output_path, "w") creates or truncates the file.
CvOpen ==
    /\ pc = "cv_open"
    /\ vault' = [vault EXCEPT ![OutputPath] = File(<<>>)]
    /\ Emit(<<"open output">>)
    /\ pc' = "cv_write"
    /\ UNCHANGED <<apiKey, vaultPath, historyFile, runs, exc, args, prompt,
                   reply, response, futures, finished, page_texts, filename,
                   history0, vault0, completed, convars>>

\* Line 149: open raises OSError (no such directory, no permission).
CvOpenFails ==
    /\ pc = "cv_open"
    /\ Caught
    /\ UNCHANGED <<apiKey, vaultPath, historyFile, vault, runs, exc, args,
                   prompt, reply, response, futures, finished, page_texts,
                   filename, history0, vault0, completed, convars>>

\* Lines 150-152: markdown_content.strip() raises AttributeError on None;
\* the write puts the first k tokens on disk, all of them when it succeeds.
CvWrite(k) ==
    /\ pc = "cv_write"
    /\ IF response.type # "str"
       THEN /\ k = 0
            /\ Caught
            /\ UNCHANGED vault
       ELSE LET content == strip(response.val)
            IN  /\ k <= Len(content)
                /\ vault' = [vault EXCEPT
                                ![OutputPath] = File(SubSeq(content, 1, k))]
                /\ IF k = Len(content)
                   THEN /\ Emit(<<"write output", "print success">>)
                        /\ pc' = "done"
                   ELSE Caught
    /\ UNCHANGED <<apiKey, vaultPath, historyFile, runs, exc, args, prompt,
                   reply, response, futures, finished, page_texts, filename,
                   history0, vault0, completed, convars>>

\* The program is run again.
NextRun ==
    /\ pc \in {"done", "crashed"}
    /\ runs < MaxRuns
    /\ runs' = runs + 1
    /\ pc' = "boot"
    /\ exc' = None
    /\ args' = NoArgs
    /\ prompt' = NoPrompt
    /\ reply' = NoReply
    /\ response' = NoneValue
    /\ events' = <<>>
    /\ futures' = <<>>
    /\ finished' = <<>>
    /\ page_texts' = <<>>
    /\ filename' = None
    /\ history0' = historyFile
    /\ vault0' = vault
    /\ UNCHANGED <<apiKey, vaultPath, historyFile, vault, completed, convars>>

Next ==
    \/ LoadModule
    \/ \E a \in ArgSpace : Main(a)
    \/ \E o \in ApiOutcomes : MainAsk(o)
    \/ MainSaveHistory
    \/ MainObsidian
    \/ \E n \in 0..MaxPages : Rasterize(n)
    \/ RasterizeFails
    \/ \E i \in 0..(MaxPages - 1), t \in OcrTexts : OcrDone(i, t)
    \/ \E i \in 0..(MaxPages - 1) : OcrFails(i)
    \/ Collect
    \/ \E o \in ApiOutcomes : CvAsk(o)
    \/ \E u \in UserInputs : CvInput(u)
    \/ CvOpen
    \/ CvOpenFails
    \/ \E k \in 0..Len(ErrorString("e").val) : CvWrite(k)

Spec == Init /\ [][Next]_vars

\* ------------------------------------------------- sequential invocations
\* The program run MaxRuns times in a row, each run a prompt action, help,
\* the intro or no action, from a history file that is absent, an empty
\* array or zero bytes, and an empty vault.
InitRuns ==
    /\ apiKey \in BOOLEAN
    /\ vaultPath \in {None, "vault"}
    /\ historyFile \in {NoHistory, JsonHistory(<<>>), CorruptHistory}
    /\ vault = [f \in VaultNames |-> Absent]
    /\ runs = 1
    /\ pc = "boot"
    /\ Fresh
    /\ ConIdle

PromptArgSpace == {a \in ArgSpace : a.convertnote = None}

NextRuns ==
    \/ LoadModule
    \/ \E a \in PromptArgSpace : Main(a)
    \/ \E o \in ApiOutcomes : MainAsk(o)
    \/ MainSaveHistory
    \/ MainObsidian
    \/ NextRun

SpecRuns == InitRuns /\ [][NextRuns]_vars

\* ------------------------------------------------- concurrent invocations
\* Two processes run the program at once on the same history.json, each a
\* prompt action without -o.  save_history is three steps of a process:
\* load_history (line 72), open(HISTORY_FILE, "w") (line 74), which leaves a
\* zero-byte file, and json.dump with the close of the file (line 75).
InitConc ==
    /\ apiKey = TRUE
    /\ vaultPath = None
    /\ historyFile \in {NoHistory, JsonHistory(<<>>), JsonHistory(<<OldEntry>>)}
    /\ vault = [f \in VaultNames |-> Absent]
    /\ runs = 1
    /\ pc = "idle"
    /\ Fresh
    /\ cpc = [p \in Procs |-> "ask"]
    /\ chistory = [p \in Procs |-> <<>>]
    /\ centry = [p \in Procs |-> Entry(0, NoPrompt, <<>>)]
    /\ cwrote = <<>>

ConcArgs == {[NoArgs EXCEPT ![t] = "text"] : t \in {"question", "code"}}

\* Lines 203-229 of process p, up to the call of save_history; the entry's
\* timestamp is the clock p reads.
CAsk(p, a, o) ==
    /\ cpc[p] = "ask"
    /\ IF ask_ai(o).type = "str"
       THEN /\ centry' = [centry EXCEPT
                            ![p] = Entry(p, PromptFor(a), ask_ai(o).val)]
            /\ cpc' = [cpc EXCEPT ![p] = "load"]
       ELSE /\ cpc' = [cpc EXCEPT ![p] = "crashed"]
            /\ UNCHANGED centry
    /\ UNCHANGED <<seqvars, chistory, cwrote>>

\* Lines 72-73 of process p.
CLoad(p) ==
    /\ cpc[p] = "load"
    /\ IF load_history(historyFile).raised
       THEN /\ cpc' = [cpc EXCEPT ![p] = "crashed"]
            /\ UNCHANGED chistory
       ELSE /\ chistory' = [chistory EXCEPT
                ![p] = append(load_history(historyFile).history, centry[p])]
            /\ cpc' = [cpc EXCEPT ![p] = "open"]
    /\ UNCHANGED <<seqvars, centry, cwrote>>

\* Line 74 of process p: the file is created or truncated.
COpen(p) ==
    /\ cpc[p] = "open"
    /\ historyFile' = CorruptHistory
    /\ cpc' = [cpc EXCEPT ![p] = "dump"]
    /\ UNCHANGED <<apiKey, vaultPath, vault, runs, pc, exc, args, prompt,
                   reply, response, events, futures, finished, page_texts,
                   filename, history0, vault0, completed, chistory, centry,
                   cwrote>>

\* Line 75 of process p: the array is written from offset 0 and the file is
\* closed.  On a file still empty that leaves the array; over what the other
\* process wrote since p opened the file it leaves the array when that is
\* at least as long in bytes, and the array followed by the rest of the
\* other's bytes, which is no JSON document, when it is shorter.
CDump(p, longer) ==
    /\ cpc[p] = "dump"
    /\ historyFile' =
          IF historyFile.state = "json" /\ ~longer
          THEN CorruptHistory
          ELSE JsonHistory(chistory[p])
    /\ (historyFile.state # "json" => longer)
    /\ cwrote' = Append(cwrote, p)
    /\ cpc' = [cpc EXCEPT ![p] = "done"]
    /\ UNCHANGED <<apiKey, vaultPath, vault, runs, pc, exc, args, prompt,
                   reply, response, events, futures, finished, page_texts,
                   filename, history0, vault0, completed, chistory, centry>>

NextConc ==
    \/ \E p \in Procs, a \in ConcArgs, o \in ApiOutcomes : CAsk(p, a, o)
    \/ \E p \in Procs : CLoad(p)
    \/ \E p \in Procs : COpen(p)
    \/ \E p \in Procs, longer \in BOOLEAN : CDump(p, longer)

SpecConc == InitConc /\ [][NextConc]_vars

\* ------------------------------------------------------------- properties
Terminated == pc \in {"done", "crashed"}

\* The invocation printed or did e.
Did(e) == \E i \in DOMAIN events : events[i] = e
Count(e) == Cardinality({i \in DOMAIN events : events[i] = e})
LastEvent == IF events = <<>> THEN None ELSE events[Len(events)]

IsPrefix(s, t) == Len(s) <= Len(t) /\ SubSeq(t, 1, Len(s)) = s

\* The page headings of a document, in the order they appear.
Headings(doc) == SelectSeq(doc, LAMBDA t : t.k = "## Page ")

\* The conversion has built the Aggregate Document.
AggregateBuilt ==
    /\ Did("print converting")
    /\ pc \in {"cv_ask", "cv_input", "cv_open", "cv_write"} \/ Did("ask_ai")

\* C1: whatever the order in which the OCR workers end, the Aggregate
\* Document of a PDF of N >= 0 pages holds exactly N page sections, headed
\* 1, 2, ..., N in this order, one per page and in the order of the pages.
C1_PagesInOrder ==
    AggregateBuilt =>
        LET h == Headings(join(page_texts))
        IN  /\ Len(h) = NumPages(futures)
            /\ \A k \in 1..Len(h) : h[k].n = k
            /\ Len(page_texts) = NumPages(futures)

\* The workers ended out of page order, and the document was built.
C1_Witness ==
    /\ AggregateBuilt
    /\ Len(finished) >= 2
    /\ finished[1] > finished[2]

\* C2: the history log only grows.  No step removes or changes an entry
\* written before or adds more than one, and after K invocations in a row
\* that each completed a prompt action the log, started absent or empty, holds
\* exactly K entries, the i-th stamped by the i-th invocation.
C2_HistoryGrows ==
    [][/\ IsPrefix(Log(historyFile), Log(historyFile'))
       /\ Len(Log(historyFile')) <= Len(Log(historyFile)) + 1
       /\ (pc' = "done" /\ completed' = runs') =>
             /\ Len(Log(historyFile')) = runs'
             /\ \A i \in 1..runs' : Log(historyFile')[i].timestamp = i]_vars

\* A second invocation completed its prompt action after a first one did.
C2_Witness ==
    /\ pc = "done"
    /\ runs >= 2
    /\ completed = runs
    /\ Len(Log(historyFile)) = runs

\* C3: whatever the remote call produces, ask_ai returns a string, and the
\* error string, which begins with the error marker, when the call failed.
C3_AskAiReturnsString ==
    Did("ask_ai") =>
        /\ response.type = "str"
        /\ CallFailed(reply) =>
              response.val # <<>> /\ Head(response.val) = ErrorMarker

\* No -nf, -hh, -cv or prompt-template flag on the command line.
NoActionFlag(a) ==
    /\ ~a.neofetch
    /\ ~a.helpme
    /\ a.convertnote = None
    /\ \A t \in TemplateFlags : a[t] = None

\* C4: with no action flag set, with or without -o, main prints the usage
\* hint and returns; it calls nothing, and the history file and the vault
\* are as they were.
C4_NoCommand ==
    (events # <<>> /\ NoActionFlag(args)) =>
        /\ pc = "done"
        /\ exc = None
        /\ events = <<"print no valid command">>
        /\ historyFile = history0
        /\ vault = vault0

\* Only -o NAME was given, with a vault configured, and main returned.
C4_Witness ==
    /\ pc = "done"
    /\ NoActionFlag(args)
    /\ args.obsidian = "note"
    /\ vaultPath # None
    /\ events = <<"print no valid command">>

\* The command line makes main reach a vault operation: the conversion, or
\* the save of a response it got and logged.
VaultFeatureReached ==
    /\ ~args.neofetch
    /\ ~args.helpme
    /\ \/ args.convertnote # None
       \/ args.obsidian # None /\ Did("save_history")

\* C5: a vault feature requested without a vault path configured (-cv, or -o
\* with a response to save) ends with the configuration error reported, the
\* vault operation skipped, no conversion attempted and no exception.
C5_MissingVaultPath ==
    (Terminated /\ vaultPath = None /\ VaultFeatureReached) =>
        /\ exc = None
        /\ Did("print vault path not set")
        /\ ~Did("print converting")
        /\ vault = vault0

OcrFailed == \E i \in DOMAIN futures : futures[i].state = "failed"

\* C6: once the OCR worker of any page has failed, the conversion fails:
\* there is no Aggregate Document and no prompt, ask_ai is not called, the
\* filename is not asked for, no file is opened or written, and the
\* function ends by reporting the failure.
C6_OcrFailureAborts ==
    OcrFailed =>
        /\ pc \in {"ocr", "done"}
        /\ exc = None
        /\ page_texts = <<>>
        /\ prompt = NoPrompt
        /\ ~Did("ask_ai")
        /\ ~Did("input filename")
        /\ ~Did("open output")
        /\ ~Did("write output")
        /\ vault = vault0
        /\ pc = "done" => LastEvent = "print error processing pdf"

\* The last of several pages failed after the first one succeeded, and the
\* conversion was given up.
C6_Witness ==
    /\ pc = "done"
    /\ NumPages(futures) >= 2
    /\ futures[0].state = "done"
    /\ futures[NumPages(futures) - 1].state = "failed"
    /\ LastEvent = "print error processing pdf"

C8_NoOutputWritten ==
    Did("print error processing pdf") =>
        /\ pc = "done"
        /\ exc = None
        /\ vault = vault0

\* C8, amended: the exception is caught, the message printed and the function
\* returns; the vault is as it was when the exception came before the output
\* file was opened, and when it came after, only the output file differs: it
\* exists and holds a prefix of the content, nothing of it when the response
\* is no string.
C8_CaughtAtTopLevel ==
    Did("print error processing pdf") =>
        /\ pc = "done"
        /\ exc = None
        /\ historyFile = history0
        /\ IF ~Did("open output")
           THEN vault = vault0
           ELSE /\ \A f \in VaultNames \ {OutputPath} : vault[f] = vault0[f]
                /\ vault[OutputPath].exists
                /\ IsPrefix(vault[OutputPath].data,
                            IF response.type = "str"
                            THEN strip(response.val) ELSE <<>>)

\* The write failed on a note that existed: its old content is gone.
C8_Witness ==
    /\ Did("print error processing pdf")
    /\ Did("open output")
    /\ response.type = "str"
    /\ vault0[OutputPath] = OldNote
    /\ vault[OutputPath] # OldNote

\* C9, as claimed, of the invocations that return: a call of ask_ai is
\* followed by the append of one history entry with that prompt and response.
C9_EveryCallLogged ==
    (pc = "done" /\ Did("ask_ai")) =>
        /\ Count("save_history") = 1
        /\ historyFile = JsonHistory(Append(Log(history0),
              [timestamp |-> runs, prompt |-> prompt,
               response |-> response.val]))

\* C9, amended: the call of a prompt-template action that returns a string
\* is followed, when history.json can be loaded, by the append of exactly one
\* entry with that prompt and that response; when it returns no string or
\* the file cannot be loaded the invocation ends in an exception and the
\* file is as it was; the call of the conversion is not logged.
C9_PromptCallsLogged ==
    (Terminated /\ Did("ask_ai")) =>
        IF Did("print converting")
        THEN historyFile = history0 /\ Count("save_history") = 0
        ELSE IF response.type = "str" /\ history0.state # "corrupt"
        THEN /\ Count("save_history") = 1
             /\ historyFile = JsonHistory(Append(Log(history0),
                   [timestamp |-> runs, prompt |-> prompt,
                    response |-> response.val]))
        ELSE /\ historyFile = history0
             /\ Count("save_history") = 0
             /\ pc = "crashed"

\* A prompt action got an error string and logged it after an older entry.
C9_Witness ==
    /\ pc = "done"
    /\ ~Did("print converting")
    /\ response.type = "str" /\ Head(response.val) = ErrorMarker
    /\ Log(history0) # <<>>
    /\ Len(Log(historyFile)) = Len(Log(history0)) + 1

AllDone == \A p \in Procs : cpc[p] = "done"

\* C10: save_history is a read-modify-write without protection.  When both
\* concurrent invocations have completed their append and the file is a
\* JSON array, it is what the process that wrote last computed from the
\* file it loaded: the entries the file started with, then one or two new
\* ones, the last of them the last writer's.  C10_EntryLost is the state
\* the race leads to, in which an entry is lost.
C10_LastWriterWins ==
    (AllDone /\ historyFile.state = "json") =>
        LET log == Log(historyFile)
            base == Log(history0)
            w == cwrote[Len(cwrote)]
        IN  /\ IsPrefix(base, log)
            /\ Len(log) - Len(base) \in 1..Cardinality(Procs)
            /\ log[Len(log)] = centry[w]
            /\ log = chistory[w]

\* Both invocations completed their append, and the log holds fewer new
\* entries than appends were completed.
C10_EntryLost ==
    /\ AllDone
    /\ historyFile.state = "json"
    /\ Len(Log(historyFile)) < Len(Log(history0)) + Cardinality(Procs)

====
